---- MODULE Spec2Model ----
(***************************************************************************)
(* Conversational subsystem of the portfolio site: the decision-tree       *)
(* engine (src/lib/decision-tree.ts), the chat route handlers POST and GET *)
(* (app/api/chat/route.ts) and the conversation/message tables they use.   *)
(***************************************************************************)
EXTENDS Integers, Sequences, FiniteSets, TLC

\* ------------------------------------------------------------------ bounds
MaxConvs == 2
MaxMsgs == 2
CtxMaxMsgs == 9

\* --------------------------------------------------------- program constants
HistoryWindow == 6

\* JavaScript undefined for string-valued fields
Undefined == "undefined"
\* a conversationId the caller left out (undefined, null or "": all falsy)
NoId == 0
\* a conversationId no conversation has: ids are generated by the store
UnknownId == MaxConvs + 1

\* !x for a string-valued field
Falsy(x) == x \in {Undefined, ""}

\* ------------------------------------------------------- tree configuration
Opt(t, v, n) == [text |-> t, value |-> v, nextId |-> n]

Node(i, m, t, o) == [kind |-> "node", id |-> i, message |-> m, type |-> t, options |-> o]

\* chatbot-tree.json: a root object {id, message, type, options} and a nodes
\* mapping; the option "broken" names a node the mapping does not have
chatbotTree ==
  [id |-> "welcome",
   message |-> "Hi! What would you like to know?",
   type |-> "multiple_choice",
   options |-> << Opt("See projects", "projects", "projects"),
                  Opt("Ask anything", "chat", "ai_chat"),
                  Opt("Contact", "broken", "contact") >>,
   nodes |-> [n \in {"projects", "ai_chat"} |->
                IF n = "projects"
                THEN Node("projects", "Here are the projects.", "multiple_choice",
                          << Opt("Start over", "home", "welcome"),
                             Opt("Ask anything", "chat", "ai_chat") >>)
                ELSE Node("ai_chat", "Ask me anything.", "ai_handoff", << >>)]]

\* property names every plain object inherits from Object.prototype
ObjectPrototypeKeys == {"constructor", "toString", "__proto__"}

\* ------------------------------------------------------ decision-tree engine
\* this.tree seen as a node
RootOf(tree) == Node(tree.id, tree.message, tree.type, tree.options)

getStartingNode_noOptions(tree) == [RootOf(tree) EXCEPT !.options = << >>]

getStartingNode(tree) == RootOf(tree)

\* this.tree.nodes[id]: an own key, an inherited property (truthy, without
\* options), or undefined
NodesGet(tree, id) ==
  IF id \in DOMAIN tree.nodes THEN tree.nodes[id]
  ELSE IF id \in ObjectPrototypeKeys THEN [kind |-> "inherited"]
  ELSE [kind |-> "undefined"]

Resolve(tree, id) == IF id = "welcome" THEN RootOf(tree) ELSE NodesGet(tree, id)

\* options.find(option => option.value === userChoice): index of the first
\* match in listed order, 0 when there is none
FindOption(opts, v) ==
  IF \E i \in 1..Len(opts) : opts[i].value = v
  THEN CHOOSE i \in 1..Len(opts) :
         /\ opts[i].value = v
         /\ \A j \in 1..(i - 1) : opts[j].value # v
  ELSE 0

ErrorMessage == "I'm sorry, I didn't understand that choice. Let me start over."

getErrorResponse_noReset(tree) ==
  [kind |-> "ok", message |-> ErrorMessage, options |-> tree.options,
   nextNodeId |-> Undefined, shouldHandoffToAI |-> FALSE]

getErrorResponse(tree) ==
  [kind |-> "ok", message |-> ErrorMessage, options |-> tree.options,
   nextNodeId |-> "welcome", shouldHandoffToAI |-> FALSE]

Thrown == [kind |-> "throw"]

AfterOption_keepNext(tree, nextNodeId) ==
  LET nextNode == Resolve(tree, nextNodeId) IN
  IF nextNode.kind = "undefined" THEN getErrorResponse(tree)
  ELSE IF nextNode.type = "ai_handoff"
       THEN [kind |-> "ok", message |-> nextNode.message, options |-> << >>,
             nextNodeId |-> nextNodeId, shouldHandoffToAI |-> TRUE]
  ELSE [kind |-> "ok", message |-> nextNode.message, options |-> nextNode.options,
        nextNodeId |-> nextNodeId, shouldHandoffToAI |-> FALSE]

AfterOption(tree, nextNodeId) ==
  LET nextNode == Resolve(tree, nextNodeId) IN
  IF nextNode.kind = "undefined" THEN getErrorResponse(tree)
  ELSE IF nextNode.type = "ai_handoff"
       THEN [kind |-> "ok", message |-> nextNode.message, options |-> << >>,
             nextNodeId |-> Undefined, shouldHandoffToAI |-> TRUE]
  ELSE [kind |-> "ok", message |-> nextNode.message, options |-> nextNode.options,
        nextNodeId |-> nextNodeId, shouldHandoffToAI |-> FALSE]

processUserChoice(tree, currentNodeId, userChoice) ==
  LET currentNode == Resolve(tree, currentNodeId) IN
  IF currentNode.kind = "undefined" THEN getErrorResponse(tree)
  ELSE IF currentNode.kind = "inherited" THEN Thrown
  ELSE LET i == FindOption(currentNode.options, userChoice) IN
       IF i = 0 THEN getErrorResponse(tree)
       ELSE AfterOption(tree, currentNode.options[i].nextId)

\* ------------------------------------------------------------------- state
VARIABLES
  convs,      \* ChatConversation table: row i has id i
  messages,   \* ChatMessage table in insertion order: row i has id i
  reqs,       \* route handler invocations: position, request, locals, response
  okTurns,    \* per conversation: turns answered with success, by request mode
  handedOff,  \* conversations on which a successful turn signalled handoff
  probe,      \* a direct call of the tree engine: configuration, arguments, result
  kb,         \* KnowledgeBase table in insertion order
  kbSeq,      \* rows ever inserted into KnowledgeBase, and the clock of createdAt
  published,  \* the published projects and blog posts
  rebuilds,   \* POST /api/embeddings invocations: position, locals, response
  ans,        \* a call of searchKnowledgeBase or generateRAGResponse and its result
  rateLimitMap, \* security module: client IP -> {count, lastReset}
  limiter,    \* the clock of Date.now(), the requests served, the last decision
  widget      \* ChatWidget component state and its fetches in flight

chatVars == << convs, messages, reqs, okTurns, handedOff >>

kbVars == << kb, kbSeq, published, rebuilds, ans >>

edgeVars == << rateLimitMap, limiter, widget >>

vars == << convs, messages, reqs, okTurns, handedOff, probe, kb, kbSeq, published,
           rebuilds, ans, rateLimitMap, limiter, widget >>

\* what the chat route handlers leave alone
notChat == << probe, kb, kbSeq, published, rebuilds, ans, edgeVars >>

\* prisma include: { messages: { orderBy: { timestamp: 'asc' } } }
MessagesOf(c) == SelectSeq(messages, LAMBDA m : m.conversationId = c)

\* the time of the latest write to ChatMessage
Clock == IF messages = << >> THEN 0 ELSE messages[Len(messages)].timestamp

RECURSIVE OldestFirst(_)
\* the orders ORDER BY timestamp ASC allows for a set of rows: rows of one
\* timestamp come in an order the database chooses
OldestFirst(rows) ==
  IF rows = {} THEN {<< >>}
  ELSE UNION {{<< m >> \o rest : rest \in OldestFirst(rows \ {m})} :
                m \in {x \in rows : \A y \in rows : x.timestamp <= y.timestamp}}

\* include: { messages: { orderBy: { timestamp: 'asc' } } }
ByTimestamp(c) ==
  OldestFirst({messages[i] : i \in {j \in 1..Len(messages) : messages[j].conversationId = c}})

NoResp ==
  [status |-> 0, error |-> Undefined, message |-> Undefined, options |-> << >>,
   conversationId |-> NoId, messageId |-> 0, mode |-> Undefined,
   nextNodeId |-> Undefined, history |-> << >>]

ErrorResp(st, e) == [NoResp EXCEPT !.status = st, !.error = e]

NoBody ==
  [method |-> "POST", json |-> TRUE, mode |-> Undefined, message |-> Undefined, sessionId |-> Undefined,
   conversationId |-> NoId, currentNodeId |-> Undefined, userChoice |-> Undefined]

\* what an invocation has done so far: rows written, collaborators called,
\* store operations that rejected
NoWrites ==
  [convs |-> 0, users |-> 0, userId |-> 0, assistants |-> 0, engine |-> 0, rag |-> 0,
   dbError |-> 0]

\* what a turn's call of generateRAGResponse met and gave
NoAsk == [provider |-> "none", dbOk |-> TRUE, held |-> << >>, pieces |-> << >>]

Idle ==
  [pc |-> "idle", body |-> NoBody, conv |-> NoId, loaded |-> << >>,
   responseMessage |-> Undefined, options |-> << >>, nextNodeId |-> Undefined,
   newMode |-> Undefined, context |-> Undefined, heldAtContext |-> << >>,
   asked |-> NoAsk, wrote |-> NoWrites, resp |-> NoResp]

\* a POST /api/embeddings invocation that has not begun
NoRebuild ==
  [pc |-> "idle", run |-> 0, before |-> {}, phase |-> "none", queue |-> << >>,
   expected |-> << >>, embedFails |-> 0, lastAdd |-> [embed |-> "none", id |-> 0],
   cause |-> "none", status |-> 0, body |-> [error |-> Undefined]]

NoAnswer ==
  [pc |-> "idle", op |-> "none", query |-> "", limit |-> 0, provider |-> "absent",
   dbOk |-> TRUE, after |-> 0, docs |-> << >>,
   out |-> [kind |-> "none", pieces |-> << >>]]

NoProbe ==
  [pc |-> "idle", tree |-> chatbotTree, currentNodeId |-> Undefined,
   userChoice |-> Undefined, result |-> [kind |-> "none"]]

\* a fetch of the widget that is not under way
NoCall ==
  [pc |-> "none", kind |-> "none", body |-> NoBody, currentNodeId |-> Undefined,
   byReturn |-> FALSE, lastTree |-> Undefined]

\* what the last completed return to guided mode met
NoReturn == [seen |-> FALSE, ok |-> FALSE, created |-> NoId]

\* useState initial values, lines 33-39; lastTree and returned are history
ClosedWidget(slots) ==
  [isOpen |-> FALSE, messages |-> << >>, isLoading |-> FALSE, conversationId |-> NoId,
   mode |-> "tree", currentNodeId |-> "welcome",
   calls |-> [s \in slots |-> NoCall], lastTree |-> "welcome", returned |-> NoReturn]

\* no request limited yet
NoDecision == [endpoint |-> "none", ip |-> "none", status |-> 0, own |-> 0]

\* an empty store and the given request slots, none of them in use
InitTurns(slots) ==
  /\ widget = ClosedWidget(slots)
  /\ convs = << >>
  /\ messages = << >>
  /\ reqs = [s \in slots |-> Idle]
  /\ okTurns = << >>
  /\ handedOff = {}
  /\ probe = NoProbe

InitChat == InitTurns({1})

\* a knowledge base holding the rows of `table`, nothing published, no call begun
InitKnowledge(table, workers) ==
  /\ kb = table
  /\ kbSeq = [rows |-> Len(table),
              now |-> IF table = << >> THEN 0 ELSE table[Len(table)].createdAt,
              runs |-> 0, lastOk |-> 0, lastOkBefore |-> {}]
  /\ published = [projects |-> {}, posts |-> {}]
  /\ rebuilds = [w \in workers |-> NoRebuild]
  /\ ans = NoAnswer
  /\ rateLimitMap = << >>
  /\ limiter = [now |-> 0, served |-> 0, own |-> << >>, last |-> NoDecision]

Init == InitChat /\ InitKnowledge(<< >>, {1})

\* ---------------------------------------------------------------- POST /api/chat
\* mode = 'tree' in the destructuring: the default applies to a missing field
ModeOf(b) == IF b.mode = Undefined THEN "tree" ELSE b.mode

\* sessionId || uuidv4(): a generated id is new
NewSessionId(b) ==
  IF Falsy(b.sessionId) THEN "uuid-" \o ToString(Len(convs) + 1) ELSE b.sessionId

\* a store without the unique index
SessionIdTaken_never(sid) == FALSE

\* rag.ts 599-600: the unique index on ChatConversation.sessionId
SessionIdTaken(sid) == \E i \in 1..Len(convs) : convs[i].sessionId = sid

Finish(r, resp) == [r EXCEPT !.pc = "done", !.resp = resp]

\* the catch block, lines 144-150
InternalError == ErrorResp(500, "Internal server error")

\* a store operation rejected and the catch block answers
DbRejected_success(r) ==
  Finish([r EXCEPT !.wrote.dbError = 1],
         [NoResp EXCEPT !.status = 200, !.conversationId = r.conv])

DbRejected(r) == Finish([r EXCEPT !.wrote.dbError = 1], InternalError)

\* lines 41-46: no conversation has the id
NotFound_throws(r) == Finish(r, InternalError)

NotFound(r) == Finish(r, ErrorResp(404, "Conversation not found"))

\* the tree branch, lines 53-79: the slot after it
TreeBranch(r, b) ==
  IF Falsy(b.currentNodeId) /\ Falsy(b.userChoice)
  THEN LET startingNode == getStartingNode(chatbotTree) IN
       [r EXCEPT !.pc = "store_assistant",
                 !.responseMessage = startingNode.message,
                 !.options = startingNode.options,
                 !.nextNodeId = startingNode.id]
  ELSE IF ~Falsy(b.currentNodeId) /\ ~Falsy(b.userChoice)
  THEN LET treeResponse == processUserChoice(chatbotTree, b.currentNodeId, b.userChoice)
           called == [r EXCEPT !.wrote.engine = 1] IN
       IF treeResponse.kind = "throw"
       THEN Finish(called, InternalError)
       ELSE [called EXCEPT !.pc = "store_assistant",
                           !.responseMessage = treeResponse.message,
                           !.options = treeResponse.options,
                           !.nextNodeId = treeResponse.nextNodeId,
                           !.newMode = IF treeResponse.shouldHandoffToAI
                                       THEN "ai" ELSE r.newMode]
  ELSE Finish(r, ErrorResp(400, "Invalid tree mode request"))

\* the mode dispatch, lines 48-119, up to the first write of a message
Dispatch(r, b) ==
  IF ModeOf(b) = "tree" THEN TreeBranch(r, b)
  ELSE IF ModeOf(b) = "ai"
  THEN IF Falsy(b.message)
       THEN Finish(r, ErrorResp(400, "Message is required for AI mode"))
       ELSE [r EXCEPT !.pc = "store_user"]
  ELSE Finish(r, ErrorResp(400, "Invalid mode"))

\* request.json() rejects: the catch block answers
PostMalformed(s) ==
  /\ reqs[s].pc = "idle"
  /\ reqs' = [reqs EXCEPT ![s] =
       Finish([Idle EXCEPT !.body.json = FALSE], InternalError)]
  /\ UNCHANGED << convs, messages, okTurns, handedOff >>
  /\ UNCHANGED notChat

\* lines 11-119 with a conversationId: findUnique, 404 or dispatch
PostFind(s, b, dbOk) ==
  /\ reqs[s].pc = "idle"
  /\ b.conversationId # NoId
  /\ LET r0 == [Idle EXCEPT !.body = b, !.newMode = ModeOf(b)] IN
     \E loaded \in ByTimestamp(b.conversationId) :
       reqs' = [reqs EXCEPT ![s] =
         IF ~dbOk THEN DbRejected(r0)
         ELSE IF b.conversationId \notin 1..Len(convs)
         THEN NotFound(r0)
         ELSE Dispatch([r0 EXCEPT !.conv = b.conversationId, !.loaded = loaded], b)]
  /\ UNCHANGED << convs, messages, okTurns, handedOff >>
  /\ UNCHANGED notChat

\* lines 11-119 without a conversationId: create, then dispatch
PostCreate(s, b, dbOk) ==
  /\ reqs[s].pc = "idle"
  /\ b.conversationId = NoId
  /\ LET r0 == [Idle EXCEPT !.body = b, !.newMode = ModeOf(b)]
         sid == NewSessionId(b) IN
     IF ~dbOk \/ SessionIdTaken(sid)
     THEN /\ reqs' = [reqs EXCEPT ![s] = DbRejected(r0)]
          /\ UNCHANGED << convs, okTurns >>
     ELSE /\ convs' = Append(convs, [sessionId |-> sid])
          /\ okTurns' = Append(okTurns, [tree |-> 0, ai |-> 0])
          /\ reqs' = [reqs EXCEPT ![s] =
                 Dispatch([r0 EXCEPT !.conv = Len(convs) + 1, !.loaded = << >>,
                                     !.wrote.convs = 1], b)]
  /\ UNCHANGED << messages, handedOff >>
  /\ UNCHANGED notChat

\* a new ChatMessage row: its id, and its timestamp DEFAULT CURRENT_TIMESTAMP
Message(c, role, content, type, meta, tick) ==
  [id |-> Len(messages) + 1, conversationId |-> c, role |-> role, content |-> content,
   messageType |-> type, metadata |-> meta, timestamp |-> Clock + tick]

\* a write that replaces the conversation's latest row of the same role
Insert_latestPerRole(table, row) ==
  LET same == {i \in 1..Len(table) : table[i].conversationId = row.conversationId
                                      /\ table[i].role = row.role} IN
  IF same = {} THEN Append(table, row)
  ELSE [table EXCEPT ![CHOOSE i \in same : \A j \in same : j <= i] = row]

\* chatMessage.create: the table gains the row
Insert(table, row) == Append(table, row)

\* lines 89-97: chatMessage.create for the user's message
PostStoreUser(s, dbOk, tick) ==
  /\ reqs[s].pc = "store_user"
  /\ LET r == reqs[s] IN
     IF ~dbOk
     THEN /\ reqs' = [reqs EXCEPT ![s] = DbRejected(r)]
          /\ UNCHANGED messages
     ELSE /\ messages' = Insert(messages,
                 Message(r.conv, "user", r.body.message, "text", << >>, tick))
          /\ reqs' = [reqs EXCEPT ![s] =
                 [r EXCEPT !.pc = "generate", !.wrote.users = 1,
                           !.wrote.userId = Len(messages) + 1]]
  /\ UNCHANGED << convs, okTurns, handedOff >>
  /\ UNCHANGED notChat

\* slice(0, n) in place of slice(-n)
SliceLast_first(seq, n) ==
  IF Len(seq) <= n THEN seq ELSE SubSeq(seq, 1, n)

\* Array.prototype.slice(-n)
SliceLast(seq, n) ==
  IF Len(seq) <= n THEN seq ELSE SubSeq(seq, Len(seq) - n + 1, Len(seq))

RECURSIVE Join(_, _)
\* Array.prototype.join(sep) over strings
Join(lines, sep) ==
  IF lines = << >> THEN ""
  ELSE IF Len(lines) = 1 THEN lines[1]
  ELSE lines[1] \o sep \o Join(Tail(lines), sep)

\* lines 100-103: the context string of a list of loaded messages
ConversationContext(msgs) ==
  LET last == SliceLast(msgs, HistoryWindow) IN
  Join([i \in 1..Len(last) |-> last[i].role \o ": " \o last[i].content], "\n")

\* the strings generateRAGResponse can resolve to; it has no rejecting path
RagReplies ==
  {"I found some information related to your query, but AI responses are currently unavailable.",
   "I apologize, but I encountered an error while processing your request."}

SentinelOption_wrongMode ==
  [text |-> "Return to guided conversation", value |-> "back_to_tree",
   action |-> "switch_mode", mode |-> "ai"]

SentinelOption ==
  [text |-> "Return to guided conversation", value |-> "back_to_tree",
   action |-> "switch_mode", mode |-> "tree"]

\* lines 99-116: the invocation once generateRAGResponse has resolved to reply
Replied(r, reply) ==
  [r EXCEPT !.pc = "store_assistant",
            !.context = ConversationContext(r.loaded),
            !.heldAtContext = MessagesOf(r.conv),
            !.wrote.rag = 1,
            !.responseMessage = reply,
            !.options = << SentinelOption >>]

\* lines 99-116: build the context, await generateRAGResponse, set the options
PostGenerate(s, reply) ==
  /\ reqs[s].pc = "generate"
  /\ reqs' = [reqs EXCEPT ![s] = Replied(reqs[s], reply)]
  /\ UNCHANGED << convs, messages, okTurns, handedOff >>
  /\ UNCHANGED notChat

\* an envelope that reports the mode of the request
Envelope_requestMode(r, messageId) ==
  [status |-> 200, error |-> Undefined,
   message |-> r.responseMessage, options |-> r.options,
   conversationId |-> r.conv, messageId |-> messageId,
   mode |-> ModeOf(r.body), nextNodeId |-> r.nextNodeId,
   history |-> << >>]

\* lines 136-143: the response of a successful turn
Envelope(r, messageId) ==
  [status |-> 200, error |-> Undefined,
   message |-> r.responseMessage, options |-> r.options,
   conversationId |-> r.conv, messageId |-> messageId,
   mode |-> r.newMode, nextNodeId |-> r.nextNodeId,
   history |-> << >>]

\* lines 121-143: chatMessage.create for the assistant's message, then the envelope
PostStoreAssistant(s, dbOk, tick) ==
  /\ reqs[s].pc = "store_assistant"
  /\ LET r == reqs[s]
         mode == ModeOf(r.body) IN
     IF ~dbOk
     THEN /\ reqs' = [reqs EXCEPT ![s] = DbRejected(r)]
          /\ UNCHANGED << messages, okTurns, handedOff >>
     ELSE /\ messages' = Insert(messages,
                 Message(r.conv, "assistant", r.responseMessage,
                         IF mode = "tree" THEN "decision_tree" ELSE "text",
                         << [mode |-> r.newMode, options |-> r.options,
                             nextNodeId |-> r.nextNodeId] >>, tick))
          /\ reqs' = [reqs EXCEPT ![s] =
                 Finish([r EXCEPT !.wrote.assistants = 1],
                        Envelope(r, Len(messages) + 1))]
          /\ okTurns' = [okTurns EXCEPT ![r.conv][mode] = @ + 1]
          /\ handedOff' = IF mode = "tree" /\ r.newMode = "ai"
                          THEN handedOff \cup {r.conv} ELSE handedOff
  /\ UNCHANGED convs
  /\ UNCHANGED notChat

\* the response has been sent: the invocation is over
PostReturn(s) ==
  /\ reqs[s].pc = "done"
  /\ reqs' = [reqs EXCEPT ![s] = Idle]
  /\ UNCHANGED << convs, messages, okTurns, handedOff >>
  /\ UNCHANGED notChat

\* ----------------------------------------------------------------- GET /api/chat
\* lines 153-202: the conversation and its messages, ordered
GET(s, id, dbOk) ==
  /\ reqs[s].pc = "idle"
  /\ LET r0 == [Idle EXCEPT !.body.method = "GET", !.body.conversationId = id] IN
     \E history \in ByTimestamp(id) :
       reqs' = [reqs EXCEPT ![s] =
         IF id = NoId THEN Finish(r0, ErrorResp(400, "Conversation ID required"))
         ELSE IF ~dbOk THEN DbRejected(r0)
         ELSE IF id \notin 1..Len(convs)
         THEN Finish(r0, ErrorResp(404, "Conversation not found"))
         ELSE Finish(r0, [NoResp EXCEPT !.status = 200, !.conversationId = id,
                                        !.history = history])]
  /\ UNCHANGED << convs, messages, okTurns, handedOff >>
  /\ UNCHANGED notChat

\* ------------------------------------------------------------------ requests
ConvIds == 1..MaxConvs \cup {UnknownId}

TreeBody(m, c, n, u) ==
  [NoBody EXCEPT !.mode = m, !.conversationId = c, !.currentNodeId = n, !.userChoice = u]

AiBody(c, msg, u) ==
  [NoBody EXCEPT !.mode = "ai", !.conversationId = c, !.message = msg, !.userChoice = u]

NodeInputs == {Undefined, "welcome", "projects", "nowhere", "constructor"}

ChoiceInputs ==
  {Undefined, "projects", "chat", "home", "broken", "does-not-exist", "back_to_tree"}

Bodies ==
  {TreeBody("tree", c, n, u) : c \in ConvIds \cup {NoId},
                               n \in NodeInputs, u \in ChoiceInputs}
  \cup {TreeBody(Undefined, c, n, n) : c \in ConvIds \cup {NoId},
                                       n \in {Undefined, "projects"}}
  \cup {AiBody(c, msg, u) : c \in ConvIds \cup {NoId}, msg \in {Undefined, "", "hi"},
                            u \in {Undefined, "back_to_tree"}}
  \cup {[NoBody EXCEPT !.mode = "voice", !.conversationId = c, !.message = "hi"] :
          c \in ConvIds \cup {NoId}}
  \cup {[NoBody EXCEPT !.sessionId = "s1", !.mode = m, !.message = "hi"] :
          m \in {"tree", "ai"}}

\* what a turn may add to the message table
Needs(b) == IF ModeOf(b) = "ai" THEN 2 ELSE 1

Room(b, maxConvs, maxMsgs) ==
  /\ Len(messages) + Needs(b) <= maxMsgs
  /\ b.conversationId = NoId =>
       Len(convs) < maxConvs \/ SessionIdTaken(NewSessionId(b))

Next ==
  \/ \E s \in DOMAIN reqs : PostMalformed(s)
  \/ \E s \in DOMAIN reqs : reqs[s].pc = "idle" /\ \E b \in Bodies, dbOk \in BOOLEAN :
        Room(b, MaxConvs, MaxMsgs) /\ PostFind(s, b, dbOk)
  \/ \E s \in DOMAIN reqs : reqs[s].pc = "idle" /\ \E b \in Bodies, dbOk \in BOOLEAN :
        Room(b, MaxConvs, MaxMsgs) /\ PostCreate(s, b, dbOk)
  \/ \E s \in DOMAIN reqs, dbOk \in BOOLEAN : PostStoreUser(s, dbOk, 1)
  \/ \E s \in DOMAIN reqs, reply \in RagReplies : PostGenerate(s, reply)
  \/ \E s \in DOMAIN reqs, dbOk \in BOOLEAN : PostStoreAssistant(s, dbOk, 1)
  \/ \E s \in DOMAIN reqs : PostReturn(s)
  \/ \E s \in DOMAIN reqs, id \in ConvIds \cup {NoId}, dbOk \in BOOLEAN : GET(s, id, dbOk)

Spec == Init /\ [][Next]_vars

\* AI-mode turns and reads of one conversation, under a clock that may stand still
\* between the two writes of a turn
ClockMaxMsgs == 4

NextClock ==
  \/ \E s \in DOMAIN reqs : reqs[s].pc = "idle" /\ \E b \in {AiBody(1, "hi", Undefined)} :
        Room(b, 1, ClockMaxMsgs) /\ PostFind(s, b, TRUE)
  \/ \E s \in DOMAIN reqs : reqs[s].pc = "idle" /\ \E b \in {AiBody(NoId, "hi", Undefined)} :
        Room(b, 1, ClockMaxMsgs) /\ PostCreate(s, b, TRUE)
  \/ \E s \in DOMAIN reqs, tick \in {0, 1} : PostStoreUser(s, TRUE, tick)
  \/ \E s \in DOMAIN reqs, reply \in RagReplies : PostGenerate(s, reply)
  \/ \E s \in DOMAIN reqs, tick \in {0, 1} : PostStoreAssistant(s, TRUE, tick)
  \/ \E s \in DOMAIN reqs : PostReturn(s)
  \/ \E s \in DOMAIN reqs : GET(s, 1, TRUE)

SpecClock == Init /\ [][NextClock]_vars

\* AI-mode turns only, on one long conversation
CtxBodies == {AiBody(c, msg, Undefined) : c \in {NoId, 1}, msg \in {"hi", "yo"}}

CtxReplies == {"I apologize, but I was unable to generate a response at this time."}

NextCtx ==
  \/ \E s \in DOMAIN reqs, b \in CtxBodies :
        Room(b, 1, CtxMaxMsgs) /\ PostFind(s, b, TRUE)
  \/ \E s \in DOMAIN reqs, b \in CtxBodies :
        Room(b, 1, CtxMaxMsgs) /\ PostCreate(s, b, TRUE)
  \/ \E s \in DOMAIN reqs : PostStoreUser(s, TRUE, 1)
  \/ \E s \in DOMAIN reqs, reply \in CtxReplies : PostGenerate(s, reply)
  \/ \E s \in DOMAIN reqs, dbOk \in BOOLEAN : PostStoreAssistant(s, dbOk, 1)
  \/ \E s \in DOMAIN reqs : PostReturn(s)

SpecCtx == Init /\ [][NextCtx]_vars

\* ------------------------------------------------------------------- claims
Slots == DOMAIN reqs

\* a POST invocation that has answered
PostDone(r) == r.pc = "done" /\ r.body.method = "POST" /\ r.body.json

\* a tree-mode turn that has answered
TreeTurn(r) == PostDone(r) /\ ModeOf(r.body) = "tree"

\* a tree-mode turn with a node and a choice
ChoiceTurn(r) ==
  TreeTurn(r) /\ ~Falsy(r.body.currentNodeId) /\ ~Falsy(r.body.userChoice)

\* the choice is the value of no option of the node currentNodeId names
NoMatchingOption(cur, choice) ==
  LET n == Resolve(chatbotTree, cur) IN
  n.kind = "node" => \A i \in 1..Len(n.options) : n.options[i].value # choice

\* the node the chosen option points to, when an option is chosen and the
\* node exists
TargetId(cur, choice) ==
  LET n == Resolve(chatbotTree, cur) IN
  IF n.kind = "node" /\ ~NoMatchingOption(cur, choice)
  THEN n.options[FindOption(n.options, choice)].nextId
  ELSE Undefined

TargetIsHandoff(cur, choice) ==
  /\ TargetId(cur, choice) # Undefined
  /\ Resolve(chatbotTree, TargetId(cur, choice)).kind = "node"
  /\ Resolve(chatbotTree, TargetId(cur, choice)).type = "ai_handoff"

C2_FirstTurn ==
  \A s \in Slots :
    LET r == reqs[s] IN
    (TreeTurn(r) /\ Falsy(r.body.currentNodeId) /\ Falsy(r.body.userChoice))
    => /\ r.resp.status \in {200, 404, 500}
       /\ r.resp.status = 500 => r.wrote.dbError = 1
       /\ r.resp.status = 200 =>
            /\ r.resp.message = chatbotTree.message
            /\ r.resp.options = chatbotTree.options
            /\ r.resp.nextNodeId = "welcome"
            /\ r.resp.mode = "tree"
            /\ Resolve(chatbotTree, r.resp.nextNodeId).message = r.resp.message
            /\ Resolve(chatbotTree, r.resp.nextNodeId).options = r.resp.options

C2_Witness ==
  \E s \in Slots :
    /\ TreeTurn(reqs[s])
    /\ Falsy(reqs[s].body.currentNodeId) /\ Falsy(reqs[s].body.userChoice)
    /\ reqs[s].body.conversationId = NoId
    /\ reqs[s].resp.status = 200
    /\ reqs[s].resp.nextNodeId = "welcome"

\* C3: a successful tree turn signals handoff (envelope mode "ai", no options,
\* no nextNodeId, conversation marked handed off) exactly when the chosen
\* option's target node has kind ai_handoff; otherwise the envelope's mode is
\* "tree" and nextNodeId is set, to the target's identifier when the target
\* node exists.
C3_Handoff ==
  \A s \in Slots :
    LET r == reqs[s]
        cur == r.body.currentNodeId
        choice == r.body.userChoice
        handoff == ChoiceTurn(r) /\ TargetIsHandoff(cur, choice) IN
    (TreeTurn(r) /\ r.resp.status = 200)
    => /\ r.resp.mode = "ai" <=> handoff
       /\ handoff => /\ r.resp.options = << >>
                      /\ r.resp.nextNodeId = Undefined
                      /\ r.conv \in handedOff
       /\ ~handoff =>
            /\ r.resp.mode = "tree"
            /\ r.resp.nextNodeId # Undefined
            /\ (ChoiceTurn(r) /\ TargetId(cur, choice) # Undefined
                  /\ Resolve(chatbotTree, TargetId(cur, choice)).kind = "node")
               => /\ r.resp.nextNodeId = TargetId(cur, choice)
                  /\ r.resp.options = Resolve(chatbotTree, TargetId(cur, choice)).options

C3_Witness ==
  \E s \in Slots :
    /\ ChoiceTurn(reqs[s])
    /\ reqs[s].body.currentNodeId = "projects"
    /\ reqs[s].body.userChoice = "chat"
    /\ reqs[s].resp.status = 200
    /\ reqs[s].resp.mode = "ai"

\* C4 as stated: an AI-mode turn is served on a conversation only after a turn
\* of that conversation signalled handoff.
C4_AiOnlyAfterHandoff ==
  \A s \in Slots :
    LET r == reqs[s] IN
    (PostDone(r) /\ ModeOf(r.body) = "ai" /\ r.resp.status = 200)
    => r.conv \in handedOff

\* C5 as stated: a request carrying the choice value "back_to_tree" that the
\* store serves is answered with the root node's message and options, mode
\* "tree" and nextNodeId "welcome".
C5_SentinelResets ==
  \A s \in Slots :
    LET r == reqs[s] IN
    (PostDone(r) /\ r.body.userChoice = "back_to_tree"
       /\ r.wrote.dbError = 0 /\ r.resp.status # 404)
    => /\ r.resp.status = 200
       /\ r.resp.message = chatbotTree.message
       /\ r.resp.options = chatbotTree.options
       /\ r.resp.mode = "tree"
       /\ r.resp.nextNodeId = "welcome"

Count(c, role) ==
  Cardinality({i \in 1..Len(messages) :
                 messages[i].conversationId = c /\ messages[i].role = role})

\* C6 as stated: with no turn in progress, a conversation that has had n
\* successful tree turns and m successful AI turns holds exactly n + m
\* assistant messages and m user messages.
C6_MessageCounts ==
  (\A s \in Slots : reqs[s].pc = "idle")
  => \A c \in 1..Len(convs) :
       /\ Count(c, "assistant") = okTurns[c].tree + okTurns[c].ai
       /\ Count(c, "user") = okTurns[c].ai

\* C7 as stated: a turn rejected as a client error has created no conversation
\* and no message.
C7_RejectedPersistsNothing ==
  \A s \in Slots :
    LET r == reqs[s] IN
    (PostDone(r) /\ r.resp.status = 400)
    => r.wrote.convs = 0 /\ r.wrote.users = 0 /\ r.wrote.assistants = 0

\* C8: a turn during which a store operation rejected answers with the generic
\* internal error; no response exists before the handler has finished; a
\* success envelope exists only once the turn's assistant message is stored,
\* and its messageId is the id of that message.
C8_NoSuccessOnPersistenceFailure ==
  \A s \in Slots :
    LET r == reqs[s] IN
    /\ r.pc # "done" => r.resp = NoResp
    /\ (r.pc = "done" /\ r.wrote.dbError = 1) => r.resp = InternalError
    /\ (PostDone(r) /\ r.resp.status = 200)
       => /\ r.wrote.assistants = 1
          /\ r.resp.messageId \in 1..Len(messages)
          /\ messages[r.resp.messageId].role = "assistant"
          /\ messages[r.resp.messageId].conversationId = r.resp.conversationId
          /\ messages[r.resp.messageId].content = r.resp.message

C8_Witness ==
  \E s \in Slots :
    /\ PostDone(reqs[s])
    /\ reqs[s].wrote.users = 1
    /\ reqs[s].wrote.dbError = 1
    /\ reqs[s].resp.status = 500

\* C9: a request naming a conversation id that no conversation has, served by
\* the store, is answered 404 by POST and by GET alike; the turn creates no
\* conversation, stores no message and calls neither the tree engine nor the
\* response generator.
C9_UnknownConversationRejected ==
  \A s \in Slots :
    LET r == reqs[s] IN
    (r.pc = "done" /\ r.body.json /\ r.body.conversationId = UnknownId
       /\ r.wrote.dbError = 0)
    => /\ r.resp.status = 404
       /\ r.resp.error = "Conversation not found"
       /\ r.wrote = NoWrites

C9_Witness ==
  \E s \in Slots :
    /\ PostDone(reqs[s])
    /\ reqs[s].body.conversationId = UnknownId
    /\ ModeOf(reqs[s].body) = "ai"
    /\ ~Falsy(reqs[s].body.message)
    /\ reqs[s].resp.status = 404
    /\ Len(convs) > 0

\* the `role: content` lines of the last HistoryWindow messages of msgs (all
\* of them when there are fewer), oldest first, joined by newlines
C10_Lines(msgs) ==
  LET n == Len(msgs)
      k == IF n < HistoryWindow THEN n ELSE HistoryWindow IN
  Join([i \in 1..k |-> msgs[n - k + i].role \o ": " \o msgs[n - k + i].content], "\n")

\* C10 as stated: the context passed to the generator is built from the
\* messages the conversation holds once the user's message is stored.
C10_Original ==
  \A s \in Slots :
    reqs[s].wrote.rag = 1 => reqs[s].context = C10_Lines(reqs[s].heldAtContext)

\* C10 amended: the user's message is stored first, and the context is then
\* built from the 6 most recent messages the conversation held when it was
\* loaded at the start of the turn, so without the message just stored.
C10_ContextFromLoadedMessages ==
  \A s \in Slots :
    LET r == reqs[s]
        held == r.heldAtContext IN
    r.wrote.rag = 1
    => /\ r.wrote.users = 1
       /\ held # << >>
       /\ held[Len(held)].role = "user"
       /\ held[Len(held)].content = r.body.message
       /\ r.context = C10_Lines(SubSeq(held, 1, Len(held) - 1))

C10_Witness ==
  \E s \in Slots :
    /\ reqs[s].wrote.rag = 1
    /\ Len(reqs[s].heldAtContext) > HistoryWindow + 1
    /\ reqs[s].context # C10_Lines(reqs[s].heldAtContext)

\* ------------------------------------------------- the engine called directly
\* chatbotTree with every option pointing at welcome or a key of nodes
ValidTree ==
  [chatbotTree EXCEPT !.options = << Opt("See projects", "projects", "projects"),
                                     Opt("Ask anything", "chat", "ai_chat") >>]

\* a valid tree where one node lists the value "chat" twice
DuplicateTree ==
  [ValidTree EXCEPT !.options = << Opt("See projects", "projects", "projects"),
                                   Opt("Ask anything", "chat", "ai_chat"),
                                   Opt("Chat about projects", "chat", "projects") >>]

TreeConfigs == {chatbotTree, ValidTree, DuplicateTree}

ProbeNodeIds ==
  {"welcome", "projects", "ai_chat", "nowhere", "constructor", "toString", "__proto__"}

ProbeChoices == {"projects", "chat", "home", "broken", "does-not-exist", "back_to_tree"}

\* processUserChoice(currentNodeId, userChoice) on an engine built over tree
Probe(tree, cur, choice) ==
  /\ probe.pc = "idle"
  /\ probe' = [pc |-> "called", tree |-> tree, currentNodeId |-> cur,
               userChoice |-> choice, result |-> processUserChoice(tree, cur, choice)]
  /\ UNCHANGED << chatVars, edgeVars, kbVars >>

ProbeReturn ==
  /\ probe.pc = "called"
  /\ probe' = NoProbe
  /\ UNCHANGED << chatVars, edgeVars, kbVars >>

NextTree ==
  \/ \E tree \in TreeConfigs, cur \in ProbeNodeIds, choice \in ProbeChoices :
        Probe(tree, cur, choice)
  \/ ProbeReturn

SpecTree == Init /\ [][NextTree]_vars

\* every option of the root and of every node points at welcome or a key of nodes
AllTargetsExist(tree) ==
  /\ \A i \in 1..Len(tree.options) :
       tree.options[i].nextId \in DOMAIN tree.nodes \cup {"welcome"}
  /\ \A k \in DOMAIN tree.nodes : \A i \in 1..Len(tree.nodes[k].options) :
       tree.nodes[k].options[i].nextId \in DOMAIN tree.nodes \cup {"welcome"}

\* the node an identifier configures: the root for welcome, else the node of key id
Configured(tree, id) == IF id = "welcome" THEN RootOf(tree) ELSE tree.nodes[id]

\* what choosing an option that points at node id must return
TargetResponse(tree, id) ==
  LET n == Configured(tree, id) IN
  IF n.type = "ai_handoff"
  THEN [kind |-> "ok", message |-> n.message, options |-> << >>,
        nextNodeId |-> Undefined, shouldHandoffToAI |-> TRUE]
  ELSE [kind |-> "ok", message |-> n.message, options |-> n.options,
        nextNodeId |-> id, shouldHandoffToAI |-> FALSE]

\* C19 as stated: on a configuration whose options all point at welcome or an
\* existing node, processChoice(N.id, O.value) returns the response of O's
\* target for every node N and option O of N; and for every pair of
\* arguments whatsoever the engine returns a response and does not raise.
C19_ResolvesAndNeverRaises ==
  probe.pc = "called"
  => /\ probe.result.kind = "ok"
     /\ (AllTargetsExist(probe.tree)
           /\ probe.currentNodeId \in DOMAIN probe.tree.nodes \cup {"welcome"})
        => LET n == Configured(probe.tree, probe.currentNodeId) IN
           \A i \in 1..Len(n.options) :
             n.options[i].value = probe.userChoice
             => probe.result = TargetResponse(probe.tree, n.options[i].nextId)

\* C20: a successful AI-mode turn returns mode "ai", no nextNodeId and exactly
\* one option, the sentinel with value "back_to_tree", action "switch_mode"
\* and mode "tree".
C20_AiTurnOffersReturn ==
  \A s \in Slots :
    LET r == reqs[s] IN
    (PostDone(r) /\ ModeOf(r.body) = "ai" /\ r.resp.status = 200)
    => /\ r.resp.mode = "ai"
       /\ r.resp.nextNodeId = Undefined
       /\ Len(r.resp.options) = 1
       /\ r.resp.options[1].value = "back_to_tree"
       /\ r.resp.options[1].action = "switch_mode"
       /\ r.resp.options[1].mode = "tree"

C20_Witness ==
  \E s \in Slots :
    /\ PostDone(reqs[s])
    /\ ModeOf(reqs[s].body) = "ai"
    /\ reqs[s].resp.status = 200
    /\ reqs[s].resp.options # << >>


\* ------------------------------------------------------------- lib/rag.ts: texts
\* A text is a sequence of pieces and stands for their concatenation.  A query is
\* one piece, or the empty string; the pieces are cut so that a query occurs in
\* a text exactly when it is one of the text's pieces.
RECURSIVE Flatten(_)
Flatten(pieces) ==
  IF pieces = << >> THEN "" ELSE pieces[1] \o Flatten(Tail(pieces))

\* String.prototype.includes / SQL LIKE '%query%'
Contains(text, query) ==
  query = "" \/ \E i \in 1..Len(text) : text[i] = query

IsInfix(part, text) ==
  \E i \in 0..(Len(text) - Len(part)) :
     \A j \in 1..Len(part) : text[i + j] = part[j]

\* the project and blogPost tables; a row's published flag is in `published`
ProjectRows ==
  {[id |-> "p1", title |-> << "Storefront" >>,
    description |-> << "A shop built with ", "React" >>, metadata |-> << >>]}

BlogPostRows ==
  {[id |-> "b1", title |-> << "Testing notes" >>, excerpt |-> << >>,
    content |-> << "How the storefront is tested." >>]}

Entry(t, c, src, sid) == [title |-> t, content |-> c, source |-> src, sourceId |-> sid]

\* lines 168-174
ProjectEntry(project) ==
  Entry(project.title, project.description \o << " " >> \o project.metadata,
        "project", project.id)

\* lines 182-188
BlogEntry(post) ==
  Entry(post.title, post.excerpt \o << " " >> \o post.content, "blog", post.id)

\* lines 192-214
manualEntries ==
  << Entry(<< "Technical Skills Overview" >>,
           << "Full-stack developer with expertise in ", "React",
              ", Next.js, TypeScript, Node.js, PostgreSQL, and AWS. Experienced in building scalable web applications with modern development practices including testing, CI/CD, and security best practices." >>,
           "manual", Undefined),
     Entry(<< "Development Philosophy" >>,
           << "Believes in writing clean, maintainable code with comprehensive testing. Focuses on user experience, performance optimization, and accessibility. Enjoys working with modern technologies and staying current with industry best practices." >>,
           "manual", Undefined),
     Entry(<< "Portfolio Website Features" >>,
           << "This Netflix-style portfolio website demonstrates advanced ", "React",
              " animations, AWS integration, full-stack development capabilities, and AI-powered features. Built with Next.js 14, TypeScript, Tailwind CSS, and deployed on AWS infrastructure." >>,
           "manual", Undefined) >>

\* ------------------------------------------------- lib/rag.ts: searchKnowledgeBase
DefaultLimit == 5

Matches(table, query) ==
  {i \in 1..Len(table) :
     Contains(table[i].title, query) \/ Contains(table[i].content, query)}

RECURSIVE NewestFirst(_, _)
\* the orders ORDER BY createdAt DESC allows for the rows at positions S: rows of
\* one createdAt come in an order the database chooses
NewestFirst(table, S) ==
  IF S = {} THEN {<< >>}
  ELSE UNION {{<< table[i] >> \o rest : rest \in NewestFirst(table, S \ {i})} :
                i \in {j \in S : \A k \in S : table[k].createdAt <= table[j].createdAt}}

\* take the oldest rows first
Take_oldest(rows, limit) ==
  IF Len(rows) <= limit THEN rows ELSE SubSeq(rows, Len(rows) - limit + 1, Len(rows))

Take(rows, limit) ==
  IF Len(rows) <= limit THEN rows ELSE SubSeq(rows, 1, limit)

\* lines 75-90: what findMany may resolve to
searchKnowledgeBase(table, query, limit) ==
  {Take(rows, limit) : rows \in NewestFirst(table, Matches(table, query))}

\* lines 72-94: a rejected findMany is caught and gives no entries
SearchOutcomes(table, query, limit, dbOk) ==
  IF dbOk THEN searchKnowledgeBase(table, query, limit) ELSE {<< >>}


\* ------------------------------------------------- lib/rag.ts: generateRAGResponse
\* the states of the generative provider at a call: no client, a completion with
\* text, a completion without content, a rejected call
Providers == {"absent", "text", "empty", "throws"}

TemplateHead == "Based on the available information:\n\n"

Disclosure ==
  "\n\nPlease note: AI responses are currently unavailable. For more detailed information, you can explore the projects section or contact directly."

Deflection ==
  "I found some information related to your query, but AI responses are currently unavailable. Please explore the projects and blog sections for more details, or feel free to contact directly."

NoContentApology == "I apologize, but I was unable to generate a response at this time."

ErrorApology ==
  "I apologize, but I encountered an error while processing your request. Please try again or rephrase your question."

\* a completion the provider returns
Completion == "You can ask me about the projects."

\* line 108: `${doc.title}: ${doc.content}`
DocText(doc) == doc.title \o << ": " >> \o doc.content

RECURSIVE JoinTexts(_, _)
\* Array.prototype.join(sep) over texts
JoinTexts(texts, sep) ==
  IF texts = << >> THEN << >>
  ELSE IF Len(texts) = 1 THEN texts[1]
  ELSE texts[1] \o << sep >> \o JoinTexts(Tail(texts), sep)

\* lines 107-110 without the cut to two entries
ContextString_all(docs) ==
  JoinTexts([i \in 1..Len(docs) |-> DocText(docs[i])], "\n\n")

\* lines 107-110: map, slice(0, 2), join
ContextString(docs) ==
  JoinTexts(Take([i \in 1..Len(docs) |-> DocText(docs[i])], 2), "\n\n")

\* lines 104-115
Fallback(docs) ==
  IF Len(docs) > 0
  THEN << TemplateHead >> \o ContextString(docs) \o << Disclosure >>
  ELSE << Deflection >>

Returned(pieces) == [kind |-> "return", pieces |-> pieces]

\* lines 138-146: what awaiting the completion gives
Completed(provider) ==
  CASE provider = "text"   -> Returned(<< Completion >>)
    [] provider = "empty"  -> Returned(<< >>)
    [] provider = "throws" -> Thrown

\* lines 152-155: any error inside the try resolves to the fixed apology
Caught(docs) == Returned(<< ErrorApology >>)

\* lines 97-156 without the catch
generateRAGResponse_uncaught(provider, docs) ==
  IF provider = "absent" THEN Returned(Fallback(docs))
  ELSE LET response == Completed(provider) IN
       IF response.kind = "throw" THEN Thrown
       ELSE IF response.pieces = << >> THEN Returned(<< NoContentApology >>)
       ELSE response

\* lines 97-156: what the call resolves to, given what the search resolved to
generateRAGResponse(provider, docs) ==
  IF provider = "absent" THEN Returned(Fallback(docs))
  ELSE LET response == Completed(provider) IN
       IF response.kind = "throw" THEN Caught(docs)
       ELSE IF response.pieces = << >> THEN Returned(<< NoContentApology >>)
       ELSE response


\* -------------------------------------------- calls of search and answer on a table
MaxRows == 6

Row(id, entry, embedded, createdAt, run) ==
  [id |-> id, title |-> entry.title, content |-> entry.content,
   source |-> entry.source, sourceId |-> entry.sourceId, embedding |-> embedded,
   createdAt |-> createdAt, run |-> run]

RECURSIVE Stamps(_)
\* the createdAt columns of n rows inserted in order: a row is stamped later than
\* the row before it, or with the same time (here at most two rows share a time)
Stamps(n) ==
  IF n = 0 THEN {<< >>}
  ELSE IF n = 1 THEN {<< 1 >>}
  ELSE UNION {{Append(t, t[n - 1] + 1)}
              \cup (IF n > 2 /\ t[n - 1] = t[n - 2] THEN {} ELSE {Append(t, t[n - 1])}) :
                t \in Stamps(n - 1)}

\* tables of up to MaxRows rows, each a copy of the first or the second manual entry
Tables ==
  UNION {{[i \in 1..n |-> Row(i, manualEntries[which[i]], FALSE, at[i], 0)] :
            which \in [1..n -> {1, 2}], at \in Stamps(n)} : n \in 0..MaxRows}

Queries == {"", "React", "Technical Skills Overview", "What technologies do you use?"}

Limits == {1, 2, DefaultLimit}

\* a direct call of searchKnowledgeBase(query, limit)
Search(query, limit, dbOk) ==
  /\ ans.pc = "idle"
  /\ \E docs \in SearchOutcomes(kb, query, limit, dbOk) :
       ans' = [NoAnswer EXCEPT !.pc = "called", !.op = "search", !.query = query,
                               !.limit = limit, !.dbOk = dbOk, !.after = kbSeq.lastOk,
                               !.docs = docs]
  /\ UNCHANGED << chatVars, edgeVars, probe, kb, kbSeq, published, rebuilds >>

\* a direct call of generateRAGResponse(query): lines 104 and 118 search with the
\* default limit
Answer(query, provider, dbOk) ==
  /\ ans.pc = "idle"
  /\ \E docs \in SearchOutcomes(kb, query, DefaultLimit, dbOk) :
       ans' = [NoAnswer EXCEPT !.pc = "called", !.op = "answer", !.query = query,
                               !.limit = DefaultLimit, !.provider = provider,
                               !.dbOk = dbOk, !.after = kbSeq.lastOk, !.docs = docs,
                               !.out = generateRAGResponse(provider, docs)]
  /\ UNCHANGED << chatVars, edgeVars, probe, kb, kbSeq, published, rebuilds >>

AnsReturn ==
  /\ ans.pc = "called"
  /\ ans' = NoAnswer
  /\ UNCHANGED << chatVars, edgeVars, probe, kb, kbSeq, published, rebuilds >>

InitSearch == InitChat /\ \E table \in Tables : InitKnowledge(table, {1})

NextSearch ==
  \/ \E query \in Queries, limit \in Limits, dbOk \in BOOLEAN : Search(query, limit, dbOk)
  \/ \E query \in Queries, provider \in Providers, dbOk \in BOOLEAN :
        Answer(query, provider, dbOk)
  \/ AnsReturn

SpecSearch == InitSearch /\ [][NextSearch]_vars


\* ------------------------------- lib/rag.ts: addToKnowledgeBase, populateKnowledgeBase
MaxRebuilds == 1

RECURSIVE Orders(_)
\* findMany without orderBy: the rows of S in an order the database chooses
Orders(S) ==
  IF S = {} THEN {<< >>}
  ELSE UNION {{<< x >> \o rest : rest \in Orders(S \ {x})} : x \in S}

\* an add that a failed embedding call rejects
AddStores_strict(embed, dbOk) == dbOk /\ embed # "fails"

\* lines 36-65: the add resolves when the create does; a failed embedding call is
\* caught at lines 42-47
AddStores(embed, dbOk) == dbOk

\* deleteMany leaving the rows in place
Cleared_kept(table) == table

\* line 161: deleteMany()
Cleared(table) == << >>

\* the rows a table holds, by id and origin
Held(table) ==
  {[id |-> table[i].id, source |-> table[i].source, sourceId |-> table[i].sourceId] :
     i \in 1..Len(table)}

\* lines 221-224 and route.ts 14-20: the rebuild rejects and the route answers 500
RebuildFailed(r, cause) ==
  [r EXCEPT !.pc = "done", !.cause = cause, !.status = 500,
            !.body = [error |-> "Failed to update knowledge base"]]

\* route.ts 5-13, rag.ts 161: POST /api/embeddings begins and deletes every row
RebuildDelete(w, dbOk) ==
  /\ rebuilds[w].pc = "idle"
  /\ kbSeq' = [kbSeq EXCEPT !.runs = @ + 1]
  /\ LET r == [NoRebuild EXCEPT !.run = kbSeq.runs + 1, !.before = Held(kb)] IN
     IF dbOk
     THEN /\ kb' = Cleared(kb)
          /\ rebuilds' = [rebuilds EXCEPT ![w] = [r EXCEPT !.pc = "projects"]]
     ELSE /\ kb' = kb
          /\ rebuilds' = [rebuilds EXCEPT ![w] = RebuildFailed(r, "deleteMany")]
  /\ UNCHANGED << chatVars, edgeVars, probe, published, ans >>

\* lines 164-166: project.findMany({ published: true })
RebuildFindProjects(w, dbOk) ==
  /\ rebuilds[w].pc = "projects"
  /\ LET r == rebuilds[w] IN
     IF dbOk
     THEN \E rows \in Orders({p \in ProjectRows : p.id \in published.projects}) :
            LET entries == [i \in 1..Len(rows) |-> ProjectEntry(rows[i])] IN
            rebuilds' = [rebuilds EXCEPT ![w] =
              [r EXCEPT !.pc = "adding", !.phase = "projects", !.queue = entries,
                        !.expected = entries]]
     ELSE rebuilds' = [rebuilds EXCEPT ![w] = RebuildFailed(r, "project.findMany")]
  /\ UNCHANGED << chatVars, edgeVars, probe, kb, kbSeq, published, ans >>

\* lines 178-180 and 192-214: blogPost.findMany({ published: true }); the manual
\* entries follow the posts
RebuildFindPosts(w, dbOk) ==
  /\ rebuilds[w].pc = "adding"
  /\ rebuilds[w].phase = "projects"
  /\ rebuilds[w].queue = << >>
  /\ LET r == rebuilds[w] IN
     IF dbOk
     THEN \E rows \in Orders({b \in BlogPostRows : b.id \in published.posts}) :
            LET entries == [i \in 1..Len(rows) |-> BlogEntry(rows[i])] \o manualEntries IN
            rebuilds' = [rebuilds EXCEPT ![w] =
              [r EXCEPT !.phase = "rest", !.queue = entries,
                        !.expected = @ \o entries]]
     ELSE rebuilds' = [rebuilds EXCEPT ![w] = RebuildFailed(r, "blogPost.findMany")]
  /\ UNCHANGED << chatVars, edgeVars, probe, kb, kbSeq, published, ans >>

\* lines 33-66 for the next entry of a loop (167-175, 181-189, 216-218); after the
\* last manual entry the rebuild resolves and the route answers (route.ts 9-13)
RebuildAdd(w, embed, dbOk, tick) ==
  /\ rebuilds[w].pc = "adding"
  /\ rebuilds[w].queue # << >>
  /\ LET r == rebuilds[w]
         id == kbSeq.rows + 1
         at == kbSeq.now + tick
         r1 == [r EXCEPT !.embedFails = IF embed = "fails" THEN @ + 1 ELSE @,
                         !.lastAdd = [embed |-> embed, id |-> id]] IN
     IF AddStores(embed, dbOk)
     THEN /\ kb' = Append(kb, Row(id, Head(r.queue), embed = "ok", at, r.run))
          /\ kbSeq' = [kbSeq EXCEPT
               !.rows = id, !.now = at,
               !.lastOk = IF r.phase = "rest" /\ Len(r.queue) = 1 THEN r.run ELSE @,
               !.lastOkBefore = IF r.phase = "rest" /\ Len(r.queue) = 1
                                THEN r.before ELSE @]
          /\ rebuilds' = [rebuilds EXCEPT ![w] =
               IF r.phase = "rest" /\ Len(r.queue) = 1
               THEN [r1 EXCEPT !.pc = "done", !.queue = << >>, !.status = 200]
               ELSE [r1 EXCEPT !.queue = Tail(r.queue)]]
     ELSE /\ rebuilds' = [rebuilds EXCEPT ![w] =
               RebuildFailed([r1 EXCEPT !.lastAdd.id = 0],
                             IF dbOk THEN "embedding" ELSE "knowledgeBase.create")]
          /\ UNCHANGED << kb, kbSeq >>
  /\ UNCHANGED << chatVars, edgeVars, probe, published, ans >>

\* the response has been sent
RebuildReturn(w) ==
  /\ rebuilds[w].pc = "done"
  /\ rebuilds' = [rebuilds EXCEPT ![w] = NoRebuild]
  /\ UNCHANGED << chatVars, edgeVars, probe, kb, kbSeq, published, ans >>

\* an administrator publishes or withdraws a project or a blog post
SetPublished(projects, posts) ==
  /\ published # [projects |-> projects, posts |-> posts]
  /\ published' = [projects |-> projects, posts |-> posts]
  /\ UNCHANGED << chatVars, edgeVars, probe, kb, kbSeq, rebuilds, ans >>

KbQueries == {"", "React"}

NextKb ==
  \/ \E w \in DOMAIN rebuilds, dbOk \in BOOLEAN :
        kbSeq.runs < MaxRebuilds /\ RebuildDelete(w, dbOk)
  \/ \E w \in DOMAIN rebuilds, dbOk \in BOOLEAN : RebuildFindProjects(w, dbOk)
  \/ \E w \in DOMAIN rebuilds, dbOk \in BOOLEAN : RebuildFindPosts(w, dbOk)
  \/ \E w \in DOMAIN rebuilds, embed \in {"ok", "fails"}, dbOk \in BOOLEAN :
        RebuildAdd(w, embed, dbOk, 1)
  \/ \E w \in DOMAIN rebuilds : RebuildReturn(w)
  \/ \E projects \in SUBSET {p.id : p \in ProjectRows},
        posts \in SUBSET {b.id : b \in BlogPostRows} : SetPublished(projects, posts)
  \/ \E query \in KbQueries : Search(query, DefaultLimit, TRUE)
  \/ AnsReturn

\* the table an earlier rebuild left when every project and post was published
OldTable ==
  LET entries == [i \in 1..1 |-> ProjectEntry(CHOOSE p \in ProjectRows : TRUE)]
                 \o [i \in 1..1 |-> BlogEntry(CHOOSE b \in BlogPostRows : TRUE)]
                 \o manualEntries IN
  [i \in 1..Len(entries) |-> Row(i, entries[i], FALSE, i, 0)]

InitKb == InitChat /\ InitKnowledge(OldTable, {1})

SpecKb == InitKb /\ [][NextKb]_vars


\* -------------------------------------------------------- claims: knowledge base
Workers == DOMAIN rebuilds

EntryOf(row) == Entry(row.title, row.content, row.source, row.sourceId)

Entries(table) == [i \in 1..Len(table) |-> EntryOf(table[i])]

\* C15: a search made after a rebuild has completed, and before another has
\* begun to replace its rows, returns only rows that rebuild created; whatever
\* follows, it returns no row that the table held before that rebuild, so no entry
\* of a project or post that has been withdrawn since.
C15_NoStaleEntries ==
  (ans.pc = "called" /\ ans.op = "search" /\ ans.after > 0 /\ ans.after = kbSeq.lastOk) =>
    \A i \in 1..Len(ans.docs) :
      /\ \A h \in kbSeq.lastOkBefore : h.id # ans.docs[i].id
      /\ ans.docs[i].run >= ans.after
      /\ kbSeq.runs = ans.after => ans.docs[i].run = ans.after

\* the table held the entry of a project that matched the query and is withdrawn;
\* the rebuild ran and the search returns entries, none of them that one
C15_Witness ==
  /\ ans.pc = "called" /\ ans.op = "search" /\ ans.query = "React"
  /\ ans.after > 0 /\ ans.after = kbSeq.lastOk
  /\ ans.docs # << >>
  /\ \E h \in kbSeq.lastOkBefore :
       /\ h.source = "project"
       /\ h.sourceId \notin published.projects
       /\ \E p \in ProjectRows : p.id = h.sourceId /\ Contains(ProjectEntry(p).content, "React")

\* C16: a rebuild that reports success leaves exactly the replacement set in the
\* table, and a rebuild that reports failure leaves the table as it found it.
C16_AllOrNothing ==
  \A w \in Workers :
    rebuilds[w].pc = "done" =>
      IF rebuilds[w].status = 200
      THEN Entries(kb) = rebuilds[w].expected
      ELSE Held(kb) = rebuilds[w].before

\* C17: an add whose embedding call fails stores its entry without an embedding
\* and returns the id; a rebuild is never aborted by an embedding failure, and a
\* rebuild that succeeds has stored every entry of the replacement set, whichever
\* of its embedding calls failed.
C17_EmbeddingFailureDoesNotAbort ==
  \A w \in Workers :
    LET r == rebuilds[w] IN
    /\ r.cause # "embedding"
    /\ (r.lastAdd.embed = "fails" /\ r.cause = "none") =>
         /\ r.lastAdd.id > 0
         /\ \E i \in 1..Len(kb) : kb[i].id = r.lastAdd.id /\ kb[i].embedding = FALSE
    /\ (r.pc = "done" /\ r.status = 200) =>
         /\ Entries(kb) = r.expected
         /\ Cardinality({i \in 1..Len(kb) : ~kb[i].embedding}) = r.embedFails

\* a rebuild succeeded although several of its embedding calls failed
C17_Witness ==
  \E w \in Workers :
    /\ rebuilds[w].pc = "done" /\ rebuilds[w].status = 200
    /\ rebuilds[w].embedFails >= 2
    /\ Len(kb) > rebuilds[w].embedFails


\* ------------------------------------------------------ claims: search and answer
Min(a, b) == IF a <= b THEN a ELSE b

AnswerCalled == ans.pc = "called" /\ ans.op = "answer"

\* the entries an answer lists: each is written as title, ": ", content
Listed(pieces) == Cardinality({i \in 1..Len(pieces) : pieces[i] = ": "})

\* C12: without a generative provider the answer is, when the search gave
\* entries, a text that carries the disclosure that AI responses are unavailable
\* and lists the first one or two of them verbatim and no more; when the search
\* gave nothing, the generic deflection.  It is never empty and never raised.
C12_NoProviderAnswer ==
  (AnswerCalled /\ ans.provider = "absent") =>
    /\ ans.out.kind = "return"
    /\ Flatten(ans.out.pieces) # ""
    /\ IF ans.docs # << >>
       THEN /\ \E i \in 1..Len(ans.out.pieces) : ans.out.pieces[i] = Disclosure
            /\ \A i \in 1..Min(2, Len(ans.docs)) :
                 IsInfix(DocText(ans.docs[i]), ans.out.pieces)
            /\ Listed(ans.out.pieces) = Min(2, Len(ans.docs))
       ELSE ans.out.pieces = << Deflection >>

\* the search gave more than two entries and the answer lists two
C12_Witness ==
  /\ AnswerCalled /\ ans.provider = "absent"
  /\ Len(ans.docs) > 2
  /\ Listed(ans.out.pieces) = 2

\* C13: when the completion call throws, the answer is the one an absent provider
\* gives: the template over the retrieved entries, or the deflection.
C13_ThrowDegrades ==
  (AnswerCalled /\ ans.provider = "throws") =>
    ans.out = generateRAGResponse("absent", ans.docs)

\* C18: a search returns matching rows only, as many as there are up to the
\* limit, newest first, and leaves out no match newer than one it returns.
C18_NewestMatches ==
  (ans.pc = "called" /\ ans.op = "search" /\ ans.dbOk) =>
    LET docs == ans.docs
        M == Matches(kb, ans.query)
        Returned_ids == {docs[i].id : i \in 1..Len(docs)} IN
    /\ Len(docs) = Min(ans.limit, Cardinality(M))
    /\ Cardinality(Returned_ids) = Len(docs)
    /\ \A i \in 1..Len(docs) :
         /\ \E j \in 1..Len(kb) : kb[j] = docs[i]
         /\ Contains(docs[i].title, ans.query) \/ Contains(docs[i].content, ans.query)
    /\ \A i, j \in 1..Len(docs) : i < j => docs[i].createdAt >= docs[j].createdAt
    /\ \A j \in M : kb[j].id \notin Returned_ids =>
         \A i \in 1..Len(docs) : docs[i].createdAt >= kb[j].createdAt

\* more rows match than the default limit admits
C18_Witness ==
  /\ ans.pc = "called" /\ ans.op = "search" /\ ans.dbOk
  /\ ans.limit = DefaultLimit
  /\ Cardinality(Matches(kb, ans.query)) > DefaultLimit
  /\ Len(ans.docs) = DefaultLimit


\* ----------------------------------------------- AI-mode turns over the knowledge base
\* part_003 lines 99-116 with generateRAGResponse run on the table: the search of
\* rag.ts 104/118, then the reply; a call that raised would reach the catch of
\* lines 144-150
PostGenerateRag(s, provider, dbOk) ==
  /\ reqs[s].pc = "generate"
  /\ \E docs \in SearchOutcomes(kb, reqs[s].body.message, DefaultLimit, dbOk) :
       LET out == generateRAGResponse(provider, docs)
           r == [reqs[s] EXCEPT !.asked = [provider |-> provider, dbOk |-> dbOk,
                                           held |-> kb, pieces |-> out.pieces]] IN
       reqs' = [reqs EXCEPT ![s] =
         IF out.kind = "throw"
         THEN Finish([reqs[s] EXCEPT !.wrote.rag = 1,
                                     !.asked = [provider |-> provider, dbOk |-> dbOk,
                                                held |-> kb, pieces |-> << >>]],
                     InternalError)
         ELSE Replied(r, Flatten(out.pieces))]
  /\ UNCHANGED << convs, messages, okTurns, handedOff >>
  /\ UNCHANGED notChat

RagBodies ==
  {AiBody(c, msg, Undefined) : c \in {NoId, 1},
                               msg \in {"What technologies do you use?", "React"}}

NextRag ==
  \/ \E s \in DOMAIN reqs : reqs[s].pc = "idle" /\ \E b \in RagBodies, dbOk \in BOOLEAN :
        Room(b, MaxConvs, MaxMsgs) /\ PostFind(s, b, dbOk)
  \/ \E s \in DOMAIN reqs : reqs[s].pc = "idle" /\ \E b \in RagBodies, dbOk \in BOOLEAN :
        Room(b, MaxConvs, MaxMsgs) /\ PostCreate(s, b, dbOk)
  \/ \E s \in DOMAIN reqs, dbOk \in BOOLEAN : PostStoreUser(s, dbOk, 1)
  \/ \E s \in DOMAIN reqs, provider \in Providers, dbOk \in BOOLEAN :
        PostGenerateRag(s, provider, dbOk)
  \/ \E s \in DOMAIN reqs, dbOk \in BOOLEAN : PostStoreAssistant(s, dbOk, 1)
  \/ \E s \in DOMAIN reqs : PostReturn(s)
  \/ \E w \in DOMAIN rebuilds : kbSeq.runs < MaxRebuilds /\ RebuildDelete(w, TRUE)
  \/ \E w \in DOMAIN rebuilds : RebuildFindProjects(w, TRUE)
  \/ \E w \in DOMAIN rebuilds : RebuildFindPosts(w, TRUE)
  \/ \E w \in DOMAIN rebuilds, tick \in {0, 1} : RebuildAdd(w, "absent", TRUE, tick)
  \/ \E w \in DOMAIN rebuilds : RebuildReturn(w)

SpecRag == Init /\ [][NextRag]_vars

\* ------------------------------------------------- claims: AI turns and the answer
AiTurn(r) == PostDone(r) /\ ModeOf(r.body) = "ai" /\ r.asked.provider # "none"

Pieces(entry) ==
  {entry.title[i] : i \in 1..Len(entry.title)}
  \cup {entry.content[i] : i \in 1..Len(entry.content)}

\* C11: with no provider and a table holding the manual entry "Technical Skills
\* Overview", the AI turn with message "What technologies do you use?" replies with
\* text that has wording of that entry and offers the option "back_to_tree".
C11_ScenarioC ==
  \A s \in Slots :
    LET r == reqs[s] IN
    (/\ AiTurn(r) /\ r.resp.status = 200
     /\ r.body.message = "What technologies do you use?"
     /\ r.asked.provider = "absent" /\ r.asked.dbOk
     /\ \E i \in 1..Len(r.asked.held) : EntryOf(r.asked.held[i]) = manualEntries[1])
    => /\ r.resp.message = Flatten(r.asked.pieces)
       /\ \E i \in 1..Len(r.asked.pieces) : r.asked.pieces[i] \in Pieces(manualEntries[1])
       /\ \E i \in 1..Len(r.resp.options) : r.resp.options[i].value = "back_to_tree"

\* C14: the answer function never raises to the turn that calls it and never
\* gives it an empty text, whatever the provider and the store do; an AI turn that
\* called it ends with the internal error only when one of the turn's own writes
\* was rejected.
C14_AnswerAlwaysReturnsText ==
  \A s \in Slots :
    LET r == reqs[s] IN
    r.asked.provider # "none" =>
      /\ r.pc \in {"store_assistant", "done"}
      /\ r.pc = "done" /\ r.resp.status = 500 => r.wrote.dbError = 1
      /\ r.pc = "store_assistant" =>
           /\ r.responseMessage \notin {"", Undefined}
           /\ r.responseMessage = Flatten(r.asked.pieces)
      /\ r.pc = "done" /\ r.resp.status = 200 => r.resp.message \notin {"", Undefined}

\* a turn is answered although the provider threw and the store failed
C14_Witness ==
  \E s \in Slots :
    /\ AiTurn(reqs[s]) /\ reqs[s].resp.status = 200
    /\ reqs[s].asked.provider = "throws" /\ ~reqs[s].asked.dbOk
    /\ reqs[s].resp.message = ErrorApology


\* ------------------------------------------------------- claims: stored messages
Conversations == 1..Len(convs)

\* the messages of every conversation have pairwise different timestamps, and
\* rising with the order of insertion
TimestampsStrict ==
  \A c \in Conversations :
    LET msgs == MessagesOf(c) IN
    \A i, j \in 1..Len(msgs) : i < j => msgs[i].timestamp < msgs[j].timestamp

\* whatever a request read of a conversation is that conversation's messages in
\* the order of insertion
ReadsInInsertionOrder ==
  \A s \in Slots :
    LET r == reqs[s] IN
    /\ (r.pc = "done" /\ r.body.method = "GET" /\ r.resp.status = 200) =>
         \E k \in 0..Len(MessagesOf(r.resp.conversationId)) :
           r.resp.history = SubSeq(MessagesOf(r.resp.conversationId), 1, k)
    /\ \E k \in 0..Len(MessagesOf(r.conv)) : r.loaded = SubSeq(MessagesOf(r.conv), 1, k)

\* C21: every step leaves the stored messages in place and unchanged, adding at
\* most new ones at the end; no two messages of a conversation have the same
\* timestamp, and a read in timestamp order gives them in the order of insertion.
C21_AppendOnlyTotalOrder ==
  [][/\ Len(messages') >= Len(messages)
     /\ SubSeq(messages', 1, Len(messages)) = messages
     /\ TimestampsStrict'
     /\ ReadsInInsertionOrder']_vars


\* C22: no two conversations have the same sessionId; a turn without conversationId
\* whose sessionId another conversation already has creates no conversation and
\* no message, is not served from that conversation, and is not answered 200.
C22_SessionIdUnique ==
  /\ \A i, j \in Conversations : i # j => convs[i].sessionId # convs[j].sessionId
  /\ \A s \in Slots :
       LET r == reqs[s] IN
       (/\ PostDone(r)
        /\ r.body.conversationId = NoId
        /\ ~Falsy(r.body.sessionId)
        /\ \E i \in Conversations :
             /\ convs[i].sessionId = r.body.sessionId
             /\ ~(r.wrote.convs = 1 /\ r.conv = i))
       => /\ r.wrote.convs = 0 /\ r.wrote.users = 0 /\ r.wrote.assistants = 0
          /\ r.conv = NoId
          /\ r.resp.status = 500
          /\ r.resp.conversationId = NoId

\* a turn supplied the sessionId of an existing conversation and was refused
C22_Witness ==
  \E s \in Slots :
    /\ PostDone(reqs[s])
    /\ reqs[s].body.conversationId = NoId
    /\ \E i \in Conversations : convs[i].sessionId = reqs[s].body.sessionId
    /\ reqs[s].wrote.convs = 0
    /\ reqs[s].wrote.dbError = 1
    /\ reqs[s].resp.status = 500


\* C26: an AI turn answered with the internal error leaves the messages of its
\* conversation as they were when the turn began: it has stored no user message.
C26_FailedAiTurnStoresNothing ==
  \A s \in Slots :
    LET r == reqs[s] IN
    (PostDone(r) /\ ModeOf(r.body) = "ai" /\ r.resp.status = 500 /\ r.conv # NoId) =>
      /\ r.wrote.users = 0
      /\ {m.id : m \in {MessagesOf(r.conv)[i] : i \in 1..Len(MessagesOf(r.conv))}}
           = {r.loaded[i].id : i \in 1..Len(r.loaded)}

\* C30: the assistant message a successful turn stored is the one its envelope
\* describes: the envelope's messageId is its id, its conversation the envelope's
\* conversationId, its content the envelope's message, and its metadata holds the
\* envelope's mode, options and nextNodeId.
C30_StoredReplyMatchesEnvelope ==
  \A s \in Slots :
    LET r == reqs[s] IN
    (PostDone(r) /\ r.resp.status = 200) =>
      /\ r.resp.messageId \in 1..Len(messages)
      /\ LET stored == messages[r.resp.messageId] IN
         /\ stored.id = r.resp.messageId
         /\ stored.role = "assistant"
         /\ stored.conversationId = r.resp.conversationId
         /\ stored.content = r.resp.message
         /\ stored.metadata = << [mode |-> r.resp.mode, options |-> r.resp.options,
                                  nextNodeId |-> r.resp.nextNodeId] >>

\* the turn on which the tree hands off: the request said tree, the envelope and
\* the stored metadata say ai
C30_Witness ==
  \E s \in Slots :
    /\ PostDone(reqs[s]) /\ reqs[s].resp.status = 200
    /\ ModeOf(reqs[s].body) = "tree" /\ reqs[s].resp.mode = "ai"
    /\ messages[reqs[s].resp.messageId].metadata[1].mode = "ai"


\* --------------------------------------------- two turns at once on one conversation
TwoMaxMsgs == 5

\* the first turn that creates the conversation, and the AI turn on it that a
\* slot serves: the two slots' turns carry different messages
TwoBodies(s) ==
  {TreeBody("tree", NoId, Undefined, Undefined),
   AiBody(1, IF s = 1 THEN "hi" ELSE "yo", Undefined)}

TurnStep(s) ==
  \/ PostStoreUser(s, TRUE, 1)
  \/ \E reply \in CtxReplies : PostGenerate(s, reply)
  \/ \E tick \in {0, 1} : PostStoreAssistant(s, TRUE, tick)

NextTwo ==
  \/ \E s \in DOMAIN reqs : reqs[s].pc = "idle" /\ \E b \in TwoBodies(s) :
        Room(b, 1, TwoMaxMsgs) /\ PostFind(s, b, TRUE)
  \/ \E s \in DOMAIN reqs : reqs[s].pc = "idle" /\ \E b \in TwoBodies(s) :
        Room(b, 1, TwoMaxMsgs) /\ PostCreate(s, b, TRUE)
  \/ \E s \in DOMAIN reqs : TurnStep(s)
  \/ \E s \in DOMAIN reqs : PostReturn(s)

InitTwo == InitTurns({1, 2}) /\ InitKnowledge(<< >>, {1})

\* a turn that has begun runs to its response
SpecTwo ==
  InitTwo /\ [][NextTwo]_vars /\ \A s \in {1, 2} : WF_vars(TurnStep(s))


\* ------------------------------------------------------ claims: concurrent turns
AiDone(r) == PostDone(r) /\ ModeOf(r.body) = "ai" /\ r.resp.status = 200

\* the user message a turn has stored is in the table as the turn wrote it
UserMessageKept(r) ==
  r.wrote.users = 1 =>
    /\ r.wrote.userId \in 1..Len(messages)
    /\ LET m == messages[r.wrote.userId] IN
       /\ m.role = "user" /\ m.conversationId = r.conv /\ m.content = r.body.message

\* the reply of a finished turn is in the table, after the turn's user message
ReplyKept(r) ==
  AiDone(r) =>
    /\ r.resp.messageId \in 1..Len(messages)
    /\ r.wrote.userId < r.resp.messageId
    /\ LET m == messages[r.resp.messageId] IN
       /\ m.role = "assistant" /\ m.conversationId = r.conv
       /\ m.content = r.resp.message
       /\ messages[r.wrote.userId].timestamp <= m.timestamp

C24_Safe ==
  /\ \A s \in Slots : UserMessageKept(reqs[s]) /\ ReplyKept(reqs[s])
  /\ \A s \in Slots :
       (PostDone(reqs[s]) /\ ModeOf(reqs[s].body) = "ai" /\ reqs[s].conv # NoId)
         => reqs[s].resp.status = 200
  /\ \A s, t \in Slots :
       (s # t /\ AiDone(reqs[s]) /\ AiDone(reqs[t])) =>
         Cardinality({reqs[s].wrote.userId, reqs[s].resp.messageId,
                      reqs[t].wrote.userId, reqs[t].resp.messageId}) = 4

\* C24: of two AI turns running at once on one conversation, in every
\* interleaving each runs to its response, each one's user message and reply stay
\* stored as written, four different rows in all, and each turn's user message
\* is stored before that turn's reply.
C24_ConcurrentTurnsKeepAllMessages ==
  /\ []C24_Safe
  /\ \A s \in {1, 2} : (reqs[s].pc = "store_user") ~> AiDone(reqs[s])

\* two AI turns on the same conversation have both finished, the second having
\* stored its user message between the first one's user message and reply
C24_Witness ==
  \E s, t \in Slots :
    /\ s # t /\ AiDone(reqs[s]) /\ AiDone(reqs[t])
    /\ reqs[s].conv = reqs[t].conv
    /\ reqs[s].wrote.userId < reqs[t].wrote.userId
    /\ reqs[t].wrote.userId < reqs[s].resp.messageId


\* ------------------------------------------------- rebuilds that overlap in time
OverlapRebuilds == 2

\* two POST /api/embeddings invocations; what is published is settled before the
\* first of them begins
NextOverlap ==
  \/ \E w \in DOMAIN rebuilds : kbSeq.runs < OverlapRebuilds /\ RebuildDelete(w, TRUE)
  \/ \E w \in DOMAIN rebuilds : RebuildFindProjects(w, TRUE)
  \/ \E w \in DOMAIN rebuilds : RebuildFindPosts(w, TRUE)
  \/ \E w \in DOMAIN rebuilds : RebuildAdd(w, "ok", TRUE, 1)
  \/ \E w \in DOMAIN rebuilds : RebuildReturn(w)
  \/ \E projects \in SUBSET {p.id : p \in ProjectRows},
        posts \in SUBSET {b.id : b \in BlogPostRows} :
        kbSeq.runs = 0 /\ SetPublished(projects, posts)

InitOverlap == InitChat /\ InitKnowledge(<< >>, {1, 2})

SpecOverlap == InitOverlap /\ [][NextOverlap]_vars

\* the rows of the table that hold the entry
RowsOf(entry) == {i \in 1..Len(kb) : EntryOf(kb[i]) = entry}

\* the entries a rebuild is to leave: of what is published, and the manual ones
ReplacementSet ==
  {ProjectEntry(p) : p \in {x \in ProjectRows : x.id \in published.projects}}
  \cup {BlogEntry(b) : b \in {x \in BlogPostRows : x.id \in published.posts}}
  \cup {manualEntries[i] : i \in 1..Len(manualEntries)}

\* C25: when every rebuild that was started has completed with success, the table
\* holds each entry of the replacement set once and nothing else.
C25_OneEntryEach ==
  (/\ kbSeq.runs > 0
   /\ \A w \in Workers : rebuilds[w].pc \in {"idle", "done"}
   /\ \A w \in Workers : rebuilds[w].pc = "done" => rebuilds[w].status = 200)
  => /\ \A entry \in ReplacementSet : Cardinality(RowsOf(entry)) = 1
     /\ Len(kb) = Cardinality(ReplacementSet)


\* ------------------------------------------------------------- rate limiting
MaxRequests == 12

MaxClockMs == 900000

ClockStepMs == 900000

IPs == {"a"}

\* the options each route module passes to createRateLimit
uploadRateLimit == [windowMs |-> 10 * 60 * 1000, max |-> 10]

createProjectRateLimit == [windowMs |-> 15 * 60 * 1000, max |-> 20]

getProjectsRateLimit == [windowMs |-> 15 * 60 * 1000, max |-> 100]

Limiters ==
  [e \in {"POST /api/upload", "POST /api/projects", "GET /api/projects"} |->
     IF e = "POST /api/upload" THEN uploadRateLimit
     ELSE IF e = "POST /api/projects" THEN createProjectRateLimit
     ELSE getProjectsRateLimit]

\* rateLimitMap.get(key) || { count: 0, lastReset: now }
Lookup(map, key, now) ==
  IF key \in DOMAIN map THEN map[key] ELSE [count |-> 0, lastReset |-> now]

\* the record after one more request: a window that has passed starts anew
Counted(options, record, now) ==
  LET current == IF now - record.lastReset > options.windowMs
                 THEN [count |-> 0, lastReset |-> now] ELSE record IN
  [current EXCEPT !.count = @ + 1]

\* rateLimitMap.set(key, record)
MapSet(map, key, record) ==
  [k \in DOMAIN map \cup {key} |-> IF k = key THEN record ELSE map[k]]

Decision(options, record) == IF record.count > options.max THEN 429 ELSE 200

\* the function createRateLimit returns, called by the route of `endpoint`; beside
\* it, a counter of this endpoint and this IP alone, kept by the same rule
Limit(endpoint, ip) ==
  LET options == Limiters[endpoint]
      key == ip
      record == Counted(options, Lookup(rateLimitMap, key, limiter.now), limiter.now)
      mine == Counted(options, Lookup(limiter.own, << endpoint, ip >>, limiter.now),
                      limiter.now) IN
  /\ rateLimitMap' = MapSet(rateLimitMap, key, record)
  /\ limiter' = [limiter EXCEPT
        !.served = @ + 1,
        !.own = MapSet(@, << endpoint, ip >>, mine),
        !.last = [endpoint |-> endpoint, ip |-> ip,
                  status |-> Decision(options, record),
                  own |-> Decision(options, mine)]]
  /\ UNCHANGED << chatVars, probe, kbVars, widget >>

\* Date.now() moves on
Tick ==
  /\ limiter.now + ClockStepMs <= MaxClockMs
  /\ limiter' = [limiter EXCEPT !.now = @ + ClockStepMs]
  /\ UNCHANGED << chatVars, probe, kbVars, rateLimitMap, widget >>

NextLimit ==
  \/ \E endpoint \in DOMAIN Limiters, ip \in IPs :
        limiter.served < MaxRequests /\ Limit(endpoint, ip)
  \/ Tick

SpecLimit == Init /\ [][NextLimit]_vars

\* C23: a request is answered 429 exactly when its endpoint's own fixed-window
\* counter for that IP has passed the endpoint's max; requests of the IP to other
\* limited endpoints neither use up that quota nor start the counter anew.
C23_IndependentPerEndpoint == limiter.last.status = limiter.last.own


\* ------------------------------------------------------------------ ChatWidget
WidgetMaxConvs == 2

WidgetMaxMsgs == 6

WidgetMaxShown == 4

\* a ChatMessage of the widget's list; a user message has a local id
Shown(id, role, type, options) ==
  [id |-> id, role |-> role, messageType |-> type, options |-> options]

\* a slot on which a fetch can go out
Free(s) == widget.calls[s].pc = "none" /\ reqs[s].pc = "idle"

\* fetch('/api/chat', {method: 'POST', body}) with setIsLoading(true) before it;
\* the call keeps the currentNodeId of the render it was made in
Fetch(w, s, kind, body, byReturn) ==
  [w EXCEPT !.isLoading = TRUE,
            !.returned = NoReturn,
            !.calls[s] = [pc |-> "sent", kind |-> kind, body |-> body,
                          currentNodeId |-> w.currentNodeId, byReturn |-> byReturn,
                          lastTree |-> w.lastTree]]

\* lines 46-53: startConversation up to its await
startConversation(w, s, byReturn) ==
  Fetch(w, s, "start", TreeBody("tree", NoId, Undefined, Undefined), byReturn)

\* lines 77-110: sendMessage up to its await
sendMessage(w, s, content, userChoice) ==
  LET typed == IF content # "" /\ w.mode = "ai"
               THEN [w EXCEPT !.messages = Append(@, Shown(0, "user", "text", << >>))]
               ELSE w
      body == IF w.mode = "tree"
              THEN TreeBody("tree", w.conversationId, w.currentNodeId, userChoice)
              ELSE AiBody(w.conversationId, content, Undefined) IN
  Fetch(typed, s, "send", body, FALSE)

\* lines 78: sendMessage returns at once
Refused(w, content, userChoice) == (content = "" /\ Falsy(userChoice)) \/ w.isLoading

\* setIsOpen(true) and the effect of lines 171-175
Open(s) ==
  /\ ~widget.isOpen
  /\ Free(s)
  /\ widget' = IF widget.messages = << >>
               THEN startConversation([widget EXCEPT !.isOpen = TRUE], s, FALSE)
               ELSE [widget EXCEPT !.isOpen = TRUE, !.returned = NoReturn]
  /\ UNCHANGED << chatVars, probe, kbVars, rateLimitMap, limiter >>

\* lines 140-155: a click on option j of displayed message i
handleOptionClick(s, i, j) ==
  /\ widget.isOpen
  /\ Free(s)
  /\ i \in 1..Len(widget.messages)
  /\ j \in 1..Len(widget.messages[i].options)
  /\ LET option == widget.messages[i].options[j]
         switch == /\ "action" \in DOMAIN option
                   /\ option.action = "switch_mode"
                   /\ ~Falsy(option.mode) IN
     IF switch /\ option.mode = "tree"
     THEN widget' = startConversation([widget EXCEPT !.mode = "tree"], s, TRUE)
     ELSE /\ widget.mode = "tree"
          /\ ~Refused(widget, "", option.value)
          /\ widget' = [sendMessage(widget, s, "", option.value) EXCEPT
                          !.mode = IF switch THEN option.mode ELSE @]
  /\ UNCHANGED << chatVars, probe, kbVars, rateLimitMap, limiter >>

\* lines 157-165 and the send button: the input area exists in AI mode only
handleKeyPress(s, inputValue) ==
  /\ widget.isOpen
  /\ widget.mode = "ai"
  /\ Free(s)
  /\ ~Refused(widget, inputValue, Undefined)
  /\ widget' = sendMessage(widget, s, inputValue, Undefined)
  /\ UNCHANGED << chatVars, probe, kbVars, rateLimitMap, limiter >>

\* the response of the fetch on slot s has come
Arrived(s, kind) ==
  /\ widget.calls[s].pc = "sent"
  /\ widget.calls[s].kind = kind
  /\ reqs[s].pc = "done"

\* the nextNodeId of a response that is in tree mode, else what was known
TreeNext(w, resp) ==
  IF resp.status = 200 /\ resp.mode = "tree" THEN resp.nextNodeId ELSE w.lastTree

\* lines 55-74: startConversation after its await
StartResolved(s) ==
  /\ Arrived(s, "start")
  /\ LET data == reqs[s].resp
         call == widget.calls[s]
         rest == [widget EXCEPT
                    !.isLoading = FALSE,
                    !.calls[s] = NoCall,
                    !.lastTree = TreeNext(widget, data),
                    !.returned = IF call.byReturn
                                 THEN [seen |-> TRUE, ok |-> data.status = 200,
                                       created |-> IF reqs[s].wrote.convs = 1
                                                   THEN reqs[s].conv ELSE NoId]
                                 ELSE NoReturn] IN
     widget' = IF data.status = 200
               THEN [rest EXCEPT
                       !.conversationId = data.conversationId,
                       !.currentNodeId = IF Falsy(data.nextNodeId) THEN "welcome"
                                         ELSE data.nextNodeId,
                       !.messages = << Shown(data.messageId, "assistant",
                                             "decision_tree", data.options) >>]
               ELSE rest
  /\ UNCHANGED << chatVars, probe, kbVars, rateLimitMap, limiter >>

\* lines 112-137: sendMessage after its await
SendResolved(s) ==
  /\ Arrived(s, "send")
  /\ LET data == reqs[s].resp
         call == widget.calls[s]
         rest == [widget EXCEPT !.isLoading = FALSE, !.calls[s] = NoCall,
                                !.lastTree = TreeNext(widget, data),
                                !.returned = NoReturn] IN
     widget' = IF data.status = 200
               THEN [rest EXCEPT
                       !.messages = Append(@, Shown(data.messageId, "assistant",
                                       IF data.mode = "tree" THEN "decision_tree"
                                       ELSE "text", data.options)),
                       !.mode = data.mode,
                       !.currentNodeId = IF Falsy(data.nextNodeId)
                                         THEN call.currentNodeId
                                         ELSE data.nextNodeId]
               ELSE rest
  /\ UNCHANGED << chatVars, probe, kbVars, rateLimitMap, limiter >>

WidgetInputs == {"hi"}

\* the widget against the chat route: its fetches are the route's only requests
NextWidget ==
  \/ \E s \in DOMAIN reqs : Open(s)
  \/ \E s \in DOMAIN reqs, i \in 1..WidgetMaxShown, j \in 1..3 : handleOptionClick(s, i, j)
  \/ \E s \in DOMAIN reqs, inputValue \in WidgetInputs :
        Len(widget.messages) + 2 <= WidgetMaxShown /\ handleKeyPress(s, inputValue)
  \/ \E s \in DOMAIN reqs :
        /\ widget.calls[s].pc = "sent"
        /\ Room(widget.calls[s].body, WidgetMaxConvs, WidgetMaxMsgs)
        /\ PostFind(s, widget.calls[s].body, TRUE)
  \/ \E s \in DOMAIN reqs, dbOk \in BOOLEAN :
        /\ widget.calls[s].pc = "sent"
        /\ Room(widget.calls[s].body, WidgetMaxConvs, WidgetMaxMsgs)
        /\ PostCreate(s, widget.calls[s].body, dbOk)
  \/ \E s \in DOMAIN reqs : PostStoreUser(s, TRUE, 1)
  \/ \E s \in DOMAIN reqs, reply \in CtxReplies : PostGenerate(s, reply)
  \/ \E s \in DOMAIN reqs : PostStoreAssistant(s, TRUE, 1)
  \/ \E s \in DOMAIN reqs : StartResolved(s)
  \/ \E s \in DOMAIN reqs : SendResolved(s)
  \/ \E s \in DOMAIN reqs : widget.calls[s].pc = "none" /\ PostReturn(s)

SpecWidget == InitTwo /\ [][NextWidget]_vars

\* the stored row a displayed assistant message stands for
StoredRow(shown) == messages[shown.id]

\* C27: every assistant message the widget displays has the kind the server stored
\* for it, the message of the handoff turn included.
C27_WidgetKindMatchesStored ==
  \A i \in 1..Len(widget.messages) :
    widget.messages[i].role = "assistant"
      => widget.messages[i].messageType = StoredRow(widget.messages[i]).messageType


\* the list that shows the root message alone
OnlyRoot(list) ==
  /\ Len(list) = 1
  /\ list[1].role = "assistant"
  /\ list[1].messageType = "decision_tree"
  /\ list[1].options = getStartingNode(chatbotTree).options

\* C28: when the request a click on the return option sent has been answered with
\* success, the widget is in tree mode at node welcome, holds the id of the
\* conversation that request created, and shows the root message alone.
C28_ReturnStartsAfresh ==
  (widget.returned.seen /\ widget.returned.ok)
  => /\ widget.mode = "tree"
     /\ widget.currentNodeId = "welcome"
     /\ widget.returned.created # NoId
     /\ widget.conversationId = widget.returned.created
     /\ OnlyRoot(widget.messages)

\* C29: a tree-mode request of sendMessage carries as currentNodeId the nextNodeId
\* of the latest tree-mode response the widget had received when it sent it
\* (welcome when that was a first turn, or none had come yet).
C29_RequestCarriesLatestNode ==
  \A s \in DOMAIN widget.calls :
    (/\ widget.calls[s].pc = "sent"
     /\ widget.calls[s].kind = "send"
     /\ ModeOf(widget.calls[s].body) = "tree")
    => widget.calls[s].body.currentNodeId = widget.calls[s].lastTree

====
